---- MODULE Spec2Model ----
(***************************************************************************)
(* Publish / unpublish lifecycle of dimagram/creator.                      *)
(*                                                                         *)
(* State: the two local documents data/album.json (the Queue) and          *)
(* data/archive.json (the Archive), the remote pointer object today.json,  *)
(* and, per running invocation, the position in publishProcess /           *)
(* unpublishProcess together with the local variables of that function;     *)
(* and for the ingestion of uploads (POST /api/upload) the local upload      *)
(* directory, the remote content directory and the requests being served.    *)
(***************************************************************************)
EXTENDS Integers, Sequences, FiniteSets, TLC

\* ------------------------------------------------------------------ bounds
MaxId == 2          \* item ids are 1..MaxId
MaxLen == 2         \* longest Queue document of the initial state / a manual save

\* Caps that keep the documents finite: PUBLISH is not started once the Archive
\* holds MaxArchive items, UNPUBLISH not once the Queue holds MaxQueue items.
\* Where each slot runs a single invocation (round.track) the documents are
\* finite without a cap.
MaxArchive == MaxLen

MaxQueue == MaxLen

Procs == {1, 2}     \* invocation slots (handlers / CLI processes)
SeqProc == 1        \* the slot used when invocations run one at a time

Ids == 1..MaxId

MaxBytes == 2       \* longest uploaded byte content
Urls == {"a"}

\* ------------------------------------------------------------- data model
\* AlbumItem: the id and the content location (description and credits are
\* carried verbatim with the url and are not modelled separately).
AlbumItem == [id : Ids, url : Urls]

NoItem == [id |-> 0, url |-> "none"]

RECURSIVE SeqsUpTo(_, _)
SeqsUpTo(S, n) ==
    IF n = 0 THEN {<<>>}
    ELSE LET shorter == SeqsUpTo(S, n - 1)
         IN  shorter \cup {Append(s, x) : s \in {t \in shorter : Len(t) = n - 1}, x \in S}

DistinctIds(s) == \A i, j \in 1..Len(s) : i # j => s[i].id # s[j].id

\* A local document: missing, syntactically broken (among others every proper
\* prefix of a JSON array, which is what an interrupted write leaves), or a
\* JSON array of items.
Absent == [kind |-> "absent", items |-> <<>>]

Malformed == [kind |-> "malformed", items |-> <<>>]

\* json.Marshal of a slice of AlbumItem
Marshal(items) == [kind |-> "json", items |-> items]

\* The remote pointer object today.json: missing, truncated / partially
\* written, or the JSON of one item.
PtrAbsent == [kind |-> "absent", item |-> NoItem]

PtrPartial == [kind |-> "partial", item |-> NoItem]

\* json.Marshal of one AlbumItem
MarshalItem(it) == [kind |-> "json", item |-> it]

VARIABLES
    album,          \* data/album.json
    archive,        \* data/archive.json
    today,          \* remote today.json
    pc,             \* per slot: position in the running function, or "idle"
    op,             \* per slot: "publish" / "unpublish" / "none"
    albumItems,     \* per slot: local variable albumItems
    archiveItems,   \* per slot: local variable archiveItems
    firstItem,      \* per slot: firstItem (publish) / lastItem (unpublish)
    pre,            \* per slot: the documents as they were when the invocation began
    log,            \* per slot: the external calls and writes made so far
    last,           \* the most recently finished operation
    prev,           \* the successful transition right before `last`, if any
    drain,          \* the current run of k consecutive successful PUBLISHes and
                    \* of the u successful UNPUBLISHes that followed them
    diverged,       \* some invocation stopped after it had touched today.json
    opened,         \* per slot: the file being written is open (truncated), not yet written
    faults,         \* the environment may fail a call (file system, SFTP, CDN)
    round,          \* the invocations of a run in which each slot is used once
    uploadDir,      \* data/uploads: file name -> bytes
    contentDir,     \* remote directory content/: file name -> bytes
    clock,          \* time.Now().UnixNano()
    upc,            \* per slot: position in the /api/upload handler, or "idle"
    req,            \* per slot: the upload being served and the handler's locals
    answers,        \* the responses of the /api/upload handler so far
    cdnEnv,         \* the environment variable BUNNY_CDN_URL ("" if not set)
    albumData,      \* the editor's signal albumData: its copy of the Queue
    selectedImage,  \* App's signal selectedImage: the id of the image, 0 for null
    deleteConfirm,  \* ImageMetadataEditor's signal deleteConfirm
    activeItem,     \* Album's signal activeItem: the id being dragged, 0 for null
    clicks          \* delete clicks on the selected image since it was selected

lifecycle == <<album, archive, today, pc, op, albumItems, archiveItems, firstItem,
               pre, log, last, prev, drain, diverged, opened, faults, round>>

ingest == <<uploadDir, contentDir, clock, upc, req, answers, cdnEnv>>

panel == <<selectedImage, deleteConfirm, activeItem, clicks>>

editor == <<albumData, panel>>

vars == <<lifecycle, ingest, editor>>

files == <<album, archive, today>>

locals == <<albumItems, archiveItems, firstItem>>


\* ------------------------------------------------------- file primitives
\* os.ReadFile: "notexist" for a missing file, "io" for any other failure
\* (ioerr is the environment's choice), else the bytes.
ReadFile(doc, ioerr) ==
    IF doc.kind = "absent" THEN "notexist"
    ELSE IF ioerr THEN "io"
    ELSE "none"

\* json.Unmarshal into []AlbumItem succeeds exactly on a JSON array of items.
UnmarshalFails(doc) == doc.kind # "json"

\* A document that must exist: any read error and any parse error is fatal.
LoadRequiredFails(doc, ioerr) ==
    \/ ReadFile(doc, ioerr) # "none"
    \/ UnmarshalFails(doc)

\* A document that may be missing: only a read error other than "not exist"
\* and a parse error are fatal; a missing file leaves the slice empty.
LoadOptionalFails(doc, ioerr) ==
    \/ ReadFile(doc, ioerr) = "io"
    \/ (ReadFile(doc, ioerr) = "none" /\ UnmarshalFails(doc))

Loaded(doc) == IF doc.kind = "json" THEN doc.items ELSE <<>>

\* The error os.ReadFile may return for a file that exists.
IoErrors == IF faults THEN BOOLEAN ELSE {FALSE}

WriteOutcomes == IF faults THEN {"ok", "open_failed", "write_failed"} ELSE {"ok"}

\* os.WriteFile opens with O_TRUNC and then writes: a failure to open leaves
\* the file as it was, a failure while writing leaves a proper prefix of the
\* new text (possibly nothing), which is not a JSON document.
WriteFile(doc, data, outcome) ==
    CASE outcome = "ok" -> data
      [] outcome = "open_failed" -> doc
      [] outcome = "write_failed" -> Malformed

UploadOutcomes ==
    IF faults THEN {"ok", "connect_failed", "create_failed", "write_failed"}
    ELSE {"ok"}

\* uploadToSFTP: connect, Create("today.json") (which truncates), Write.
UploadResult(ptr, item, outcome) ==
    CASE outcome = "ok" -> MarshalItem(item)
      [] outcome = "connect_failed" -> ptr
      [] outcome = "create_failed" -> ptr
      [] outcome = "write_failed" -> PtrPartial

UploadEvent(outcome) ==
    CASE outcome = "ok" -> "upload_ok"
      [] outcome = "write_failed" -> "upload_cut"
      [] OTHER -> "upload_failed"

ArchiveEvent(outcome) == IF outcome = "ok" THEN "archive_ok" ELSE "archive_failed"

AlbumEvent(outcome) == IF outcome = "ok" THEN "album_ok" ELSE "album_failed"

\* Whether the purge request to the CDN succeeds.
PurgeOutcomes == IF faults THEN BOOLEAN ELSE {TRUE}

PurgeEvent(ok) == IF ok THEN "purge_ok" ELSE "purge_failed"


\* ------------------------------------------------------- bookkeeping
\* What an observer of the system records about invocations; none of it is
\* read by the program.
Snapshot == [album |-> album, archive |-> archive, today |-> today]

NoPre == [album |-> Absent, archive |-> Absent, today |-> PtrAbsent]

NoLast == [op |-> "none", result |-> "none", pre |-> NoPre, log |-> <<>>]

NoPrev == [op |-> "none", album |-> Absent, archive |-> Absent, today |-> PtrAbsent]

\* The operation that has just finished becomes the previous one.
Shift ==
    IF last.result = "ok" /\ last.op \in {"publish", "unpublish"}
    THEN [op |-> last.op, album |-> last.pre.album, archive |-> last.pre.archive,
          today |-> last.pre.today]
    ELSE NoPrev

NoDrain == [q0 |-> <<>>, a0 |-> <<>>, k |-> 0, u |-> 0]

Touched(lg) == \E i \in 1..Len(lg) : lg[i] \in {"upload_ok", "upload_cut"}

Quiescent == \A p \in Procs : pc[p] = "idle"

\* A run in which every slot is used for one invocation: the Queue and the
\* Archive it began with, the invocations in the order they began, whether one
\* began while another was running, and how many have returned success.
NoRound ==
    [track |-> FALSE, base |-> [q |-> <<>>, a |-> <<>>], hist |-> <<>>,
     overlap |-> FALSE, oks |-> 0]

\* Slot p may begin an invocation.
CanStart(p) ==
    /\ pc[p] = "idle"
    /\ round.track => \A i \in 1..Len(round.hist) : round.hist[i].slot # p

\* Slot p begins invocation o (body: what a manual save posts).
Begin(p, o, body) ==
    IF round.track
    THEN [round EXCEPT !.hist = Append(@, [slot |-> p, op |-> o, body |-> body]),
                       !.overlap = @ \/ ~Quiescent]
    ELSE round

\* The invocation in slot p returns with result res ("ok" / "err") after
\* having made the calls lg.
Finish(p, res, lg) ==
    /\ pc' = [pc EXCEPT ![p] = "idle"]
    /\ op' = [op EXCEPT ![p] = "none"]
    /\ albumItems' = [albumItems EXCEPT ![p] = <<>>]
    /\ archiveItems' = [archiveItems EXCEPT ![p] = <<>>]
    /\ firstItem' = [firstItem EXCEPT ![p] = NoItem]
    /\ pre' = [pre EXCEPT ![p] = NoPre]
    /\ log' = [log EXCEPT ![p] = <<>>]
    /\ last' = [op |-> op[p], result |-> res, pre |-> pre[p], log |-> lg]
    /\ prev' = prev
    /\ drain' = IF res = "ok" /\ op[p] = "publish"
                THEN IF drain.k > 0 /\ drain.u = 0
                     THEN [drain EXCEPT !.k = drain.k + 1]
                     ELSE [q0 |-> Loaded(pre[p].album),
                           a0 |-> Loaded(pre[p].archive), k |-> 1, u |-> 0]
                ELSE IF res = "ok" /\ op[p] = "unpublish" /\ drain.u < drain.k
                THEN [drain EXCEPT !.u = drain.u + 1]
                ELSE NoDrain
    /\ diverged' = (diverged \/ (res = "err" /\ Touched(lg)))
    /\ opened' = [opened EXCEPT ![p] = FALSE]
    /\ round' = IF round.track /\ res = "ok"
                THEN [round EXCEPT !.oks = @ + 1]
                ELSE round
    /\ UNCHANGED <<faults, ingest, editor>>

\* The step that follows s in the straight-line function body `steps`.
NextStep(steps, s) ==
    IF \E i \in 1..(Len(steps) - 1) : steps[i] = s
    THEN steps[(CHOOSE i \in 1..(Len(steps) - 1) : steps[i] = s) + 1]
    ELSE "return"

\* The invocation in slot p has completed step s of `steps` and moves on, its
\* local variables now al, ar, fi; after the last step it returns success.
Advance(p, steps, s, lg, al, ar, fi) ==
    IF NextStep(steps, s) = "return"
    THEN Finish(p, "ok", lg)
    ELSE /\ pc' = [pc EXCEPT ![p] = NextStep(steps, s)]
         /\ log' = [log EXCEPT ![p] = lg]
         /\ albumItems' = [albumItems EXCEPT ![p] = al]
         /\ archiveItems' = [archiveItems EXCEPT ![p] = ar]
         /\ firstItem' = [firstItem EXCEPT ![p] = fi]
         /\ opened' = [opened EXCEPT ![p] = FALSE]
         /\ UNCHANGED <<op, pre, last, prev, drain, diverged, faults, round, ingest, editor>>

\* Step s leaves the local variables as they are.
Continue(p, steps, s, lg) ==
    Advance(p, steps, s, lg, albumItems[p], archiveItems[p], firstItem[p])

\* ------------------------------------------------------- PUBLISH
\* (variant: the cache is purged before anything is loaded)
PublishStepsPurgeFirst ==
    <<"p_purge", "p_read_album", "p_upload", "p_read_archive",
      "p_write_archive", "p_write_album">>

\* (variant: the collections are committed before the pointer is written)
PublishStepsCommitFirst ==
    <<"p_read_album", "p_read_archive", "p_write_archive", "p_write_album",
      "p_upload", "p_purge">>

\* (variant: the pointer write is made again after it has returned)
PublishStepsUploadAgain ==
    <<"p_read_album", "p_upload", "p_upload", "p_purge", "p_read_archive",
      "p_write_archive", "p_write_album">>

\* (variant: album.json is written before archive.json)
PublishStepsAlbumFirst ==
    <<"p_read_album", "p_upload", "p_purge", "p_read_archive",
      "p_write_album", "p_write_archive">>

\* (variant: the Queue is written before the Archive is read)
PublishStepsAlbumBeforeRead ==
    <<"p_read_album", "p_upload", "p_purge", "p_write_album",
      "p_read_archive", "p_write_archive">>

\* (variant: the two documents are read again and again)
PublishStepsRereads ==
    <<"p_read_album", "p_read_archive", "p_read_album", "p_read_archive">>

\* (variant: the purge follows the commit)
PublishStepsPurgeLast ==
    <<"p_read_album", "p_upload", "p_read_archive", "p_write_archive",
      "p_write_album", "p_purge">>

\* publishProcess is a straight line; these are its steps in order.
PublishSteps ==
    <<"p_read_album", "p_upload", "p_purge", "p_read_archive",
      "p_write_archive", "p_write_album">>

\* (variant: the newest queued item is taken)
FirstItemIsLast(items) == items[Len(items)]

\* firstItem := albumItems[0]
FirstItem(items) == items[1]

\* (variant: the item is put in front of the archive)
PublishArchivePrepends(items, it) == <<it>> \o items

\* archiveItems = append(archiveItems, firstItem)
PublishArchive(items, it) == Append(items, it)

\* (variant: the slice drops the last element instead of the first)
PublishAlbumDropsLast(items) == SubSeq(items, 1, Len(items) - 1)

\* albumItems = albumItems[1:]
PublishAlbum(items) == Tail(items)

\* (variant: a purge failure is returned like any other error)
PurgeIsFatal == TRUE

\* A CDN purge failure is logged and execution continues.
PurgeFatal == FALSE

\* The invocation begins (HTTP POST /api/publish or the CLI command).
PublishStart(p) ==
    /\ CanStart(p)
    /\ round.track \/ Len(Loaded(archive)) < MaxArchive
    /\ pc' = [pc EXCEPT ![p] = PublishSteps[1]]
    /\ op' = [op EXCEPT ![p] = "publish"]
    /\ pre' = [pre EXCEPT ![p] = Snapshot]
    /\ log' = [log EXCEPT ![p] = <<>>]
    /\ last' = NoLast
    /\ prev' = Shift
    /\ round' = Begin(p, "publish", <<>>)
    /\ UNCHANGED <<files, locals, drain, diverged, opened, faults, ingest, editor>>

\* 1. read and parse album.json; fail on an empty Queue; 2. take the first item
PublishReadAlbum(p) ==
    /\ pc[p] = "p_read_album"
    /\ UNCHANGED files
    /\ \E ioerr \in IoErrors :
        IF LoadRequiredFails(album, ioerr)
        THEN Finish(p, "err", Append(log[p], "read_failed"))
        ELSE IF Len(album.items) = 0
        THEN Finish(p, "err", Append(log[p], "empty"))
        ELSE Advance(p, PublishSteps, "p_read_album", log[p],
                     album.items, archiveItems[p], FirstItem(album.items))

\* 3. uploadToSFTP(firstItem)
PublishUpload(p) ==
    /\ pc[p] = "p_upload"
    /\ UNCHANGED <<album, archive>>
    /\ \E outcome \in UploadOutcomes :
        /\ today' = UploadResult(today, firstItem[p], outcome)
        /\ IF outcome = "ok"
           THEN Continue(p, PublishSteps, "p_upload", Append(log[p], UploadEvent(outcome)))
           ELSE Finish(p, "err", Append(log[p], UploadEvent(outcome)))

\* 4. invalidateCache(); its failure is only logged
PublishPurge(p) ==
    /\ pc[p] = "p_purge"
    /\ UNCHANGED files
    /\ \E ok \in PurgeOutcomes :
        IF ok \/ ~PurgeFatal
        THEN Continue(p, PublishSteps, "p_purge", Append(log[p], PurgeEvent(ok)))
        ELSE Finish(p, "err", Append(log[p], PurgeEvent(ok)))

\* 5. read archive.json if it exists, append the item
PublishReadArchive(p) ==
    /\ pc[p] = "p_read_archive"
    /\ UNCHANGED files
    /\ \E ioerr \in IoErrors :
        IF LoadOptionalFails(archive, ioerr)
        THEN Finish(p, "err", Append(log[p], "read_failed"))
        ELSE Advance(p, PublishSteps, "p_read_archive", log[p], albumItems[p],
                     PublishArchive(Loaded(archive), firstItem[p]), firstItem[p])

\* write archive.json
PublishWriteArchive(p) ==
    /\ pc[p] = "p_write_archive"
    /\ UNCHANGED <<album, today>>
    /\ \E outcome \in WriteOutcomes :
        /\ archive' = WriteFile(archive, Marshal(archiveItems[p]), outcome)
        /\ IF outcome = "ok"
           THEN Continue(p, PublishSteps, "p_write_archive",
                         Append(log[p], ArchiveEvent(outcome)))
           ELSE Finish(p, "err", Append(log[p], ArchiveEvent(outcome)))

\* 6. drop the item from the Queue and write album.json
PublishWriteAlbum(p) ==
    /\ pc[p] = "p_write_album"
    /\ UNCHANGED <<archive, today>>
    /\ \E outcome \in WriteOutcomes :
        /\ album' = WriteFile(album, Marshal(PublishAlbum(albumItems[p])), outcome)
        /\ IF outcome = "ok"
           THEN Continue(p, PublishSteps, "p_write_album",
                         Append(log[p], AlbumEvent(outcome)))
           ELSE Finish(p, "err", Append(log[p], AlbumEvent(outcome)))

\* The /api/publish handler's answer to a POST, from what publishProcess
\* returned: 500 with err.Error() (here: the call that failed), else 200.
StatusOK == 200

StatusInternalServerError == 500

\* (variant: the handler ignores the returned error)
PublishResponseIgnoresError(res, lg) ==
    [status |-> StatusOK, body |-> "Successfully published"]

PublishResponse(res, lg) ==
    IF res = "err"
    THEN [status |-> StatusInternalServerError, body |-> lg[Len(lg)]]
    ELSE [status |-> StatusOK, body |-> "Successfully published"]

\* ------------------------------------------------------- UNPUBLISH
\* (variant: the cache is purged before anything is loaded)
UnpublishStepsPurgeFirst ==
    <<"u_purge", "u_read_archive", "u_read_album", "u_upload",
      "u_write_archive", "u_write_album">>

\* (variant: the documents are written before the pointer)
UnpublishStepsCommitFirst ==
    <<"u_read_archive", "u_read_album", "u_write_archive", "u_write_album",
      "u_upload", "u_purge">>

\* unpublishProcess is a straight line; these are its steps in order.
UnpublishSteps ==
    <<"u_read_archive", "u_read_album", "u_upload", "u_purge",
      "u_write_archive", "u_write_album">>

\* (variant: the oldest archived item is dropped)
UnpublishArchiveDropsFirst(items) == Tail(items)

\* (variant: the slice bound is one too large, nothing is dropped)
UnpublishArchiveKeepsAll(items) == SubSeq(items, 1, Len(items))

\* archiveItems = archiveItems[:lastIndex]
UnpublishArchive(items) == SubSeq(items, 1, Len(items) - 1)

\* lastItem := archiveItems[lastIndex]
LastItem(items) == items[Len(items)]

\* (variant: the item is appended to the Queue instead of prepended)
UnpublishAlbumAtBack(it, items) == Append(items, it)

\* albumItems = append([]AlbumItem{lastItem}, albumItems...)
UnpublishAlbum(it, items) == <<it>> \o items

\* (variant: off by one, the pointer is not rewritten when one item remains)
UnpublishUploadsOffByOne(items) == Len(items) > 1

\* The pointer is rewritten only if items remain in the archive.
UnpublishUploads(items) == Len(items) > 0

\* The invocation begins (the CLI command).
UnpublishStart(p) ==
    /\ CanStart(p)
    /\ round.track \/ Len(Loaded(album)) < MaxQueue
    /\ pc' = [pc EXCEPT ![p] = UnpublishSteps[1]]
    /\ op' = [op EXCEPT ![p] = "unpublish"]
    /\ pre' = [pre EXCEPT ![p] = Snapshot]
    /\ log' = [log EXCEPT ![p] = <<>>]
    /\ last' = NoLast
    /\ prev' = Shift
    /\ round' = Begin(p, "unpublish", <<>>)
    /\ UNCHANGED <<files, locals, drain, diverged, opened, faults, ingest, editor>>

\* 1. read and parse archive.json; fail on an empty Archive; 2. take the last item
UnpublishReadArchive(p) ==
    /\ pc[p] = "u_read_archive"
    /\ UNCHANGED files
    /\ \E ioerr \in IoErrors :
        IF LoadRequiredFails(archive, ioerr)
        THEN Finish(p, "err", Append(log[p], "read_failed"))
        ELSE IF Len(archive.items) = 0
        THEN Finish(p, "err", Append(log[p], "empty"))
        ELSE Advance(p, UnpublishSteps, "u_read_archive", log[p],
                     albumItems[p], archive.items, LastItem(archive.items))

\* 3. read album.json if it exists; 4. move the item from the archive to the album
UnpublishReadAlbum(p) ==
    /\ pc[p] = "u_read_album"
    /\ UNCHANGED files
    /\ \E ioerr \in IoErrors :
        IF LoadOptionalFails(album, ioerr)
        THEN Finish(p, "err", Append(log[p], "read_failed"))
        ELSE Advance(p, UnpublishSteps, "u_read_album", log[p],
                     UnpublishAlbum(firstItem[p], Loaded(album)),
                     UnpublishArchive(archiveItems[p]), firstItem[p])

\* uploadToSFTP(newLastItem) if items remain in the archive
UnpublishUpload(p) ==
    /\ pc[p] = "u_upload"
    /\ UnpublishUploads(archiveItems[p])
    /\ UNCHANGED <<album, archive>>
    /\ \E outcome \in UploadOutcomes :
        /\ today' = UploadResult(today, LastItem(archiveItems[p]), outcome)
        /\ IF outcome = "ok"
           THEN Continue(p, UnpublishSteps, "u_upload",
                         Append(log[p], UploadEvent(outcome)))
           ELSE Finish(p, "err", Append(log[p], UploadEvent(outcome)))

\* the archive became empty: neither the upload nor the purge is made
UnpublishSkipUpload(p) ==
    /\ pc[p] = "u_upload"
    /\ ~UnpublishUploads(archiveItems[p])
    /\ UNCHANGED files
    /\ Continue(p, UnpublishSteps, "u_purge", log[p])

\* invalidateCache(); its failure is only logged
UnpublishPurge(p) ==
    /\ pc[p] = "u_purge"
    /\ UNCHANGED files
    /\ \E ok \in PurgeOutcomes :
        IF ok \/ ~PurgeFatal
        THEN Continue(p, UnpublishSteps, "u_purge", Append(log[p], PurgeEvent(ok)))
        ELSE Finish(p, "err", Append(log[p], PurgeEvent(ok)))

\* 6. write archive.json
UnpublishWriteArchive(p) ==
    /\ pc[p] = "u_write_archive"
    /\ UNCHANGED <<album, today>>
    /\ \E outcome \in WriteOutcomes :
        /\ archive' = WriteFile(archive, Marshal(archiveItems[p]), outcome)
        /\ IF outcome = "ok"
           THEN Continue(p, UnpublishSteps, "u_write_archive",
                         Append(log[p], ArchiveEvent(outcome)))
           ELSE Finish(p, "err", Append(log[p], ArchiveEvent(outcome)))

\* 7. write album.json
UnpublishWriteAlbum(p) ==
    /\ pc[p] = "u_write_album"
    /\ UNCHANGED <<archive, today>>
    /\ \E outcome \in WriteOutcomes :
        /\ album' = WriteFile(album, Marshal(albumItems[p]), outcome)
        /\ IF outcome = "ok"
           THEN Continue(p, UnpublishSteps, "u_write_album",
                         Append(log[p], AlbumEvent(outcome)))
           ELSE Finish(p, "err", Append(log[p], AlbumEvent(outcome)))

\* ------------------------------------------------------- manual Queue save
\* What a client may POST to /api/album: the handler copies the body to
\* album.json without parsing it.
Bodies == {Marshal(s) : s \in SeqsUpTo(AlbumItem, MaxLen)} \cup {Malformed}

\* POST /api/album: os.Create truncates the file, io.Copy writes the body.
ManualSave ==
    \E outcome \in WriteOutcomes :
      \E body \in IF outcome = "ok" THEN Bodies ELSE {Malformed} :
        /\ album' = WriteFile(album, body, outcome)
        /\ last' = [NoLast EXCEPT !.op = "save",
                                   !.result = IF outcome = "ok" THEN "ok" ELSE "err"]
        /\ prev' = NoPrev
        /\ drain' = NoDrain
        /\ UNCHANGED <<archive, today, pc, op, locals, pre, log, diverged,
                       opened, faults, round, ingest, editor>>

\* The editor's edits of the Queue it holds (Album.jsx): a drag moves one
\* item, a delete filters out the items with the given id.
Move(items, from, to) ==
    LET rest == SubSeq(items, 1, from - 1) \o SubSeq(items, from + 1, Len(items))
    IN  SubSeq(rest, 1, to - 1) \o <<items[from]>> \o SubSeq(rest, to, Len(rest))

DeleteItem(items, id) == SelectSeq(items, LAMBDA it : it.id # id)

\* What the editor posts after one edit of the Queue items.
EditorBodies(items) ==
    ({Move(items, i, j) : i, j \in 1..Len(items)}
        \cup {DeleteItem(items, items[i].id) : i \in 1..Len(items)}) \ {items}

\* POST /api/album as a request of its own, running next to other requests
\* and CLI processes: the request arrives with the editor's edited Queue.
SaveStart(p) ==
    /\ CanStart(p)
    /\ \E body \in EditorBodies(Loaded(album)) :
        /\ albumItems' = [albumItems EXCEPT ![p] = body]
        /\ round' = Begin(p, "save", body)
    /\ pc' = [pc EXCEPT ![p] = "s_create"]
    /\ op' = [op EXCEPT ![p] = "save"]
    /\ pre' = [pre EXCEPT ![p] = Snapshot]
    /\ log' = [log EXCEPT ![p] = <<>>]
    /\ last' = NoLast
    /\ prev' = NoPrev
    /\ drain' = NoDrain
    /\ UNCHANGED <<files, archiveItems, firstItem, diverged, opened, faults, ingest, editor>>

\* os.Create(albumPath): the file exists and is empty
SaveCreate(p) ==
    /\ pc[p] = "s_create"
    /\ UNCHANGED <<archive, today>>
    /\ \E outcome \in WriteOutcomes \ {"write_failed"} :
        /\ album' = WriteFile(album, Malformed, outcome)
        /\ IF outcome = "ok"
           THEN /\ pc' = [pc EXCEPT ![p] = "s_copy"]
                /\ opened' = [opened EXCEPT ![p] = TRUE]
                /\ UNCHANGED <<op, locals, pre, log, last, prev, drain, diverged,
                               faults, round, ingest, editor>>
           ELSE Finish(p, "err", Append(log[p], AlbumEvent(outcome)))

\* io.Copy(albumFile, r.Body): the body is in the file, or a part of it
SaveCopy(p) ==
    /\ pc[p] = "s_copy"
    /\ UNCHANGED <<archive, today>>
    /\ \E outcome \in WriteOutcomes \ {"open_failed"} :
        /\ album' = WriteFile(album, Marshal(albumItems[p]), outcome)
        /\ Finish(p, IF outcome = "ok" THEN "ok" ELSE "err",
                  Append(log[p], AlbumEvent(outcome)))

\* os.WriteFile of a transition has opened its file (O_CREATE|O_TRUNC) and has
\* not written to it yet: the file exists and is empty.
WriteFileOpened(p) ==
    /\ pc[p] \in {"p_write_archive", "u_write_archive", "p_write_album", "u_write_album"}
    /\ ~opened[p]
    /\ opened' = [opened EXCEPT ![p] = TRUE]
    /\ IF pc[p] \in {"p_write_archive", "u_write_archive"}
       THEN archive' = Malformed /\ UNCHANGED <<album, today>>
       ELSE album' = Malformed /\ UNCHANGED <<archive, today>>
    /\ UNCHANGED <<pc, op, locals, pre, log, last, prev, drain, diverged, faults,
                   round, ingest, editor>>

\* ------------------------------------------------------- ingestion
\* POST /api/upload: the uploaded bytes are streamed into a temporary file
\* while they are hashed, the file is renamed to <hex digest><extension>,
\* uploaded to the remote directory content/ under that name, and the CDN URL
\* of that name is returned.
Bytes == {0, 1}

Datas == SeqsUpTo(Bytes, MaxBytes)

\* filepath.Ext(handler.Filename)
Exts == {<<".jpg">>, <<".png">>}

\* Upload requests served in one behaviour.
MaxUploads == Cardinality(Procs)

NoFiles == [n \in {} |-> <<>>]

DecDigits == <<"0", "1", "2", "3", "4", "5", "6", "7", "8", "9">>

\* fmt.Sprintf("%d", n)
RECURSIVE Dec(_)
Dec(n) ==
    IF n < 10 THEN <<DecDigits[n + 1]>>
    ELSE Dec(n \div 10) \o <<DecDigits[(n % 10) + 1]>>

HexDigits ==
    <<"0", "1", "2", "3", "4", "5", "6", "7", "8", "9", "a", "b", "c", "d", "e", "f">>

\* fmt.Sprintf("%x", hashBytes)
RECURSIVE Hex(_)
Hex(n) ==
    IF n < 16 THEN <<HexDigits[n + 1]>>
    ELSE Hex(n \div 16) \o <<HexDigits[(n % 16) + 1]>>

\* sha256 of the bytes fed to the hasher, as a number: a function of the
\* bytes alone that differs for different contents (collisions are not
\* modelled).
RECURSIVE Sum256(_)
Sum256(bytes) ==
    IF bytes = <<>> THEN 1
    ELSE 3 * Sum256(SubSeq(bytes, 1, Len(bytes) - 1)) + bytes[Len(bytes)] + 1

\* tempFilename := fmt.Sprintf("temp-%d%s", time.Now().UnixNano(), fileExt)
TempName(nano, ext) == <<"temp-">> \o Dec(nano) \o ext

\* filename := hashString + fileExt
HashName(bytes, ext) == Hex(Sum256(bytes)) \o ext

\* (variant: the remote name is taken from the local path)
RemoteNameFromPath(path, filename) == path

\* The name the file is uploaded and addressed under: filename, whatever the
\* local path.
RemoteName(path, filename) == filename

\* cdnURL := os.Getenv("BUNNY_CDN_URL"), with its fallback
CdnUrl == IF cdnEnv = "" THEN "https://example.com" ELSE cdnEnv

\* imageURL := fmt.Sprintf("%s/content/%s", cdnURL, filename)
ImageUrl(filename) == <<CdnUrl, "/content/">> \o filename

NoUrl == <<>>

\* createSignal([]): the editor's signal before loadAlbumData has answered.
NoAlbumData == [loaded |-> FALSE, list |-> TRUE, items |-> <<>>]

NoReq ==
    [data |-> <<>>, ext |-> <<>>, path |-> <<>>, name |-> <<>>, defers |-> {}]

\* The proper prefixes of the bytes: what an interrupted copy leaves.
Prefixes(bytes) == {SubSeq(bytes, 1, k) : k \in 0..(Len(bytes) - 1)} \cup {<<>>}

\* The directory with file name holding bytes.
WithFile(dir, name, bytes) ==
    [n \in DOMAIN dir \cup {name} |-> IF n = name THEN bytes ELSE dir[n]]

\* os.Remove of each of the paths (a missing file is no error).
Removed(dir, paths) == [n \in DOMAIN dir \ paths |-> dir[n]]

\* The handler returns from the directory state dir: the deferred os.Remove
\* calls run and the response is on its way.
Respond(p, dir, status, url) ==
    /\ uploadDir' = Removed(dir, req[p].defers)
    /\ answers' = Append(answers, [data |-> req[p].data, ext |-> req[p].ext,
                                   status |-> status, url |-> url,
                                   path |-> req[p].path, name |-> req[p].name])
    /\ upc' = [upc EXCEPT ![p] = "idle"]
    /\ req' = [req EXCEPT ![p] = NoReq]

LocalOutcomes == IF faults THEN {"ok", "failed"} ELSE {"ok"}

\* A POST with a file arrives; the temporary path is fixed.
UploadStart(p) ==
    /\ upc[p] = "idle"
    /\ clock < MaxUploads
    /\ \E data \in Datas, ext \in Exts :
        req' = [req EXCEPT ![p] = [NoReq EXCEPT !.data = data, !.ext = ext,
                                                !.path = TempName(clock, ext)]]
    /\ clock' = clock + 1
    /\ upc' = [upc EXCEPT ![p] = "u_create"]
    /\ UNCHANGED <<uploadDir, contentDir, answers, cdnEnv, lifecycle, editor>>

\* dst, err := os.Create(filePath); defer os.Remove(filePath)
UploadCreate(p) ==
    /\ upc[p] = "u_create"
    /\ UNCHANGED <<contentDir, clock, cdnEnv, lifecycle, editor>>
    /\ \E outcome \in LocalOutcomes :
        IF outcome = "ok"
        THEN /\ uploadDir' = WithFile(uploadDir, req[p].path, <<>>)
             /\ req' = [req EXCEPT ![p].defers = @ \cup {req[p].path}]
             /\ upc' = [upc EXCEPT ![p] = "u_copy"]
             /\ UNCHANGED answers
        ELSE Respond(p, uploadDir, StatusInternalServerError, NoUrl)

\* io.Copy(io.MultiWriter(dst, hasher), file); filename := hashString + fileExt
UploadCopy(p) ==
    /\ upc[p] = "u_copy"
    /\ UNCHANGED <<contentDir, clock, cdnEnv, lifecycle, editor>>
    /\ \E outcome \in LocalOutcomes :
        IF outcome = "ok"
        THEN /\ uploadDir' = WithFile(uploadDir, req[p].path, req[p].data)
             /\ req' = [req EXCEPT ![p].name = HashName(req[p].data, req[p].ext)]
             /\ upc' = [upc EXCEPT ![p] = "u_rename"]
             /\ UNCHANGED answers
        ELSE \E part \in Prefixes(req[p].data) :
                Respond(p, WithFile(uploadDir, req[p].path, part),
                        StatusInternalServerError, NoUrl)

\* (variant: the renamed file is not registered for removal)
DefersAfterRenameUnchanged(defers, finalPath) == defers

\* After a successful rename: defer os.Remove(finalPath), next to the
\* removal of the temporary path deferred earlier.
DefersAfterRename(defers, finalPath) == defers \cup {finalPath}

\* os.Remove(finalPath); os.Rename(filePath, finalPath); on success
\* filePath = finalPath and defer os.Remove(finalPath), else the temporary
\* file is used
UploadRename(p) ==
    /\ upc[p] = "u_rename"
    /\ UNCHANGED <<contentDir, clock, answers, cdnEnv, lifecycle, editor>>
    /\ upc' = [upc EXCEPT ![p] = "u_sftp"]
    /\ \E outcome \in LocalOutcomes :
        IF outcome = "ok" /\ req[p].path \in DOMAIN uploadDir
        THEN /\ uploadDir' = WithFile(Removed(uploadDir, {req[p].path, req[p].name}),
                                      req[p].name, uploadDir[req[p].path])
             /\ req' = [req EXCEPT ![p].path = req[p].name,
                                    ![p].defers = DefersAfterRename(@, req[p].name)]
        ELSE /\ uploadDir' = Removed(uploadDir, {req[p].name})
             /\ UNCHANGED req

SftpOutcomes ==
    IF faults THEN {"ok", "connect_failed", "create_failed", "write_failed"}
    ELSE {"ok"}

\* (variant: a failed copy to the remote file is not reported)
SftpErrorIgnoresWrite(outcome) == outcome \in {"connect_failed", "create_failed", "open_failed"}

\* uploadFileToSFTP returns an error for every failed step, the copy included.
SftpError(outcome) == outcome # "ok"

\* uploadFileToSFTP(filePath, filename): connect, open the local file, Create
\* the remote file (which truncates it), copy; then the response
UploadSftp(p) ==
    /\ upc[p] = "u_sftp"
    /\ UNCHANGED <<clock, cdnEnv, lifecycle, editor>>
    /\ LET remote == RemoteName(req[p].path, req[p].name)
       IN  \E o \in SftpOutcomes :
            LET outcome == IF o = "connect_failed" \/ req[p].path \in DOMAIN uploadDir
                           THEN o ELSE "open_failed"
            IN  /\ IF outcome \in {"connect_failed", "create_failed", "open_failed"}
                   THEN contentDir' = contentDir
                   ELSE IF outcome = "write_failed"
                   THEN \E part \in Prefixes(uploadDir[req[p].path]) :
                            contentDir' = WithFile(contentDir, remote, part)
                   ELSE contentDir' = WithFile(contentDir, remote, uploadDir[req[p].path])
                /\ IF SftpError(outcome)
                   THEN Respond(p, uploadDir, StatusInternalServerError, NoUrl)
                   ELSE Respond(p, uploadDir, StatusOK, ImageUrl(remote))

Upload(p) ==
    \/ UploadStart(p)
    \/ UploadCreate(p)
    \/ UploadCopy(p)
    \/ UploadRename(p)
    \/ UploadSftp(p)

\* ------------------------------------------------------- the editor
\* The id generateUUID() gives a new image; it is none of the ids in use.
NewId == MaxId + 1

\* addNewImage(): the placeholder image appended to the editor's items.
NewImage == [id |-> NewId, url |-> "a"]

\* The editor's items after one edit of `items`: a drag (onDragEnd), a
\* metadata edit (updateItemMetadata, no field of the Queue order or the ids
\* changes), a delete (deleteItem), an added image (addNewImageWithUrl).
EditedItems(items) ==
    {Move(items, i, j) : i, j \in 1..Len(items)}
        \cup {items}
        \cup {DeleteItem(items, items[i].id) : i \in 1..Len(items)}
        \cup (IF \A i \in 1..Len(items) : items[i].id # NewId
              THEN {Append(items, NewImage)} ELSE {})

\* loadAlbumData(), called once when the Album component is set up: GET
\* /api/album answers "{}" when album.json is missing (not a list: no edit
\* works on it); a body that is not JSON leaves the signal at [].
LoadAlbumData ==
    /\ Quiescent
    /\ ~albumData.loaded
    /\ albumData' = [loaded |-> TRUE, list |-> album.kind # "absent",
                     items |-> Loaded(album)]
    /\ UNCHANGED <<lifecycle, ingest, panel>>

\* One edit in the editor followed by saveAlbumJson(), while no transition
\* is running: the whole of albumData is posted to /api/album, which
\* overwrites album.json.
EditAndSave ==
    /\ Quiescent
    /\ albumData.loaded /\ albumData.list
    /\ \E items \in EditedItems(albumData.items) :
       \E outcome \in WriteOutcomes :
        /\ albumData' = [albumData EXCEPT !.items = items]
        /\ album' = WriteFile(album, Marshal(items), outcome)
        /\ last' = [NoLast EXCEPT !.op = "save",
                                   !.result = IF outcome = "ok" THEN "ok" ELSE "err"]
    /\ prev' = NoPrev
    /\ drain' = NoDrain
    /\ UNCHANGED <<archive, today, pc, op, locals, pre, log, diverged,
                   opened, faults, round, ingest, panel>>

\* ------------------------------------------------- the editor's controls
\* saveAlbumJson(): the editor's copy of the Queue is posted to /api/album,
\* which writes it over data/album.json.
SaveAlbumJson(items) ==
    \E outcome \in WriteOutcomes :
        /\ album' = WriteFile(album, Marshal(items), outcome)
        /\ last' = [NoLast EXCEPT !.op = "save",
                                   !.result = IF outcome = "ok" THEN "ok" ELSE "err"]
        /\ prev' = NoPrev
        /\ drain' = NoDrain
        /\ UNCHANGED <<archive, today, pc, op, locals, pre, log, diverged,
                       opened, faults, round, ingest>>

\* Array.prototype.findIndex by id: the first position with the id, 0 if none.
FindIndex(items, id) ==
    IF \E i \in 1..Len(items) : items[i].id = id
    THEN CHOOSE i \in 1..Len(items) :
            /\ items[i].id = id
            /\ \A k \in 1..(i - 1) : items[k].id # id
    ELSE 0

\* The text the url field of the form may hold when the metadata is saved.
FormUrls == {"a", "b"}

\* updateItemMetadata: the first item with the id gets the form's fields.
UpdateItemMetadata(items, id, url) ==
    LET itemIndex == FindIndex(items, id)
    IN  IF itemIndex # 0
        THEN [items EXCEPT ![itemIndex] = [@ EXCEPT !.url = url]]
        ELSE items

\* (variant: the effect on the selected image leaves the confirmation armed)
ConfirmAfterSelectKept(confirm) == confirm

\* The effect of ImageMetadataEditor on a new non-null selectedImage resets
\* the form and the confirmation.
ConfirmAfterSelect(confirm) == FALSE

\* The delete clicks on the selected image, as long as it stays selected.
ClicksAfter(selected, clicked) ==
    IF selected # selectedImage \/ selected = 0
    THEN 0
    ELSE IF clicked /\ clicks < 2 THEN clicks + 1 ELSE clicks

\* A click on the thumbnail at position i: handleItemSelect passes the item
\* to App, which sets selectedImage. The signal changes, and the effect runs,
\* unless the object passed is the one that is selected already.
SelectImage(i) ==
    /\ Quiescent
    /\ activeItem = 0
    /\ albumData.loaded
    /\ i \in 1..Len(albumData.items)
    /\ \E same \in BOOLEAN :
        /\ same => albumData.items[i].id = selectedImage
        /\ selectedImage' = albumData.items[i].id
        /\ deleteConfirm' = IF same THEN deleteConfirm
                                    ELSE ConfirmAfterSelect(deleteConfirm)
        /\ clicks' = ClicksAfter(albumData.items[i].id, FALSE)
    /\ UNCHANGED <<lifecycle, ingest, albumData, activeItem>>

\* The Cancel button of the form, shown while an image is selected.
CancelButton ==
    /\ Quiescent
    /\ activeItem = 0
    /\ selectedImage # 0
    /\ deleteConfirm' = FALSE
    /\ selectedImage' = 0
    /\ clicks' = ClicksAfter(0, FALSE)
    /\ UNCHANGED <<lifecycle, ingest, albumData, activeItem>>

\* handleKeyDown: Escape while an image is selected.
EscapeKey ==
    /\ Quiescent
    /\ selectedImage # 0
    /\ deleteConfirm' = FALSE
    /\ selectedImage' = 0
    /\ clicks' = ClicksAfter(0, FALSE)
    /\ UNCHANGED <<lifecycle, ingest, albumData, activeItem>>

\* The Save button: saveMetadata hands the form's fields to
\* handleSaveMetadata, which updates the item, posts the Queue and sets
\* selectedImage to the updated object, so that the effect runs.
SaveMetadata ==
    /\ Quiescent
    /\ activeItem = 0
    /\ albumData.loaded
    /\ selectedImage # 0
    /\ \E url \in FormUrls :
        LET items == UpdateItemMetadata(albumData.items, selectedImage, url)
        IN  /\ albumData' = [albumData EXCEPT !.items = items]
            /\ SaveAlbumJson(items)
    /\ deleteConfirm' = ConfirmAfterSelect(deleteConfirm)
    /\ clicks' = ClicksAfter(selectedImage, FALSE)
    /\ UNCHANGED <<selectedImage, activeItem>>

\* The Delete button: deleteImage arms the confirmation on the first click
\* and calls handleDeleteImage on the next one, which removes the items with
\* the id, clears the selection and posts the Queue.
DeleteButton ==
    /\ Quiescent
    /\ activeItem = 0
    /\ albumData.loaded
    /\ selectedImage # 0
    /\ IF ~deleteConfirm
       THEN /\ deleteConfirm' = TRUE
            /\ clicks' = ClicksAfter(selectedImage, TRUE)
            /\ UNCHANGED <<lifecycle, ingest, albumData, selectedImage, activeItem>>
       ELSE LET items == DeleteItem(albumData.items, selectedImage)
            IN  /\ albumData' = [albumData EXCEPT !.items = items]
                /\ selectedImage' = 0
                /\ clicks' = ClicksAfter(0, TRUE)
                /\ SaveAlbumJson(items)
                /\ UNCHANGED <<deleteConfirm, activeItem>>

\* The Add button: addNewImageWithUrl appends an item with a fresh id,
\* selects it and posts the Queue.
AddNewImage ==
    /\ Quiescent
    /\ activeItem = 0
    /\ albumData.loaded /\ albumData.list
    /\ \A i \in 1..Len(albumData.items) : albumData.items[i].id # NewId
    /\ LET items == Append(albumData.items, NewImage)
       IN  /\ albumData' = [albumData EXCEPT !.items = items]
           /\ SaveAlbumJson(items)
    /\ selectedImage' = NewId
    /\ deleteConfirm' = ConfirmAfterSelect(deleteConfirm)
    /\ clicks' = ClicksAfter(NewId, FALSE)
    /\ UNCHANGED activeItem

\* onDragStart: the thumbnail at position i is picked up.
DragStart(i) ==
    /\ Quiescent
    /\ albumData.loaded
    /\ activeItem = 0
    /\ i \in 1..Len(albumData.items)
    /\ activeItem' = albumData.items[i].id
    /\ UNCHANGED <<lifecycle, ingest, albumData, selectedImage, deleteConfirm, clicks>>

\* onDragEnd saves only if there is a droppable (0 stands for none) and the
\* two ids are found at different positions.
DragEndSaves(items, draggable, droppable) ==
    /\ draggable # 0 /\ droppable # 0
    /\ FindIndex(items, draggable) # FindIndex(items, droppable)

\* The Queue onDragEnd leaves in albumData.
DragEndItems(items, draggable, droppable) ==
    IF DragEndSaves(items, draggable, droppable)
    THEN Move(items, FindIndex(items, draggable), FindIndex(items, droppable))
    ELSE items

\* onDragEnd: the dragged thumbnail is dropped on the thumbnail at position
\* j, or on no thumbnail (j = 0).
DragEnd(j) ==
    /\ Quiescent
    /\ albumData.loaded
    /\ activeItem # 0
    /\ j \in 0..Len(albumData.items)
    /\ LET droppable == IF j = 0 THEN 0 ELSE albumData.items[j].id
           items == DragEndItems(albumData.items, activeItem, droppable)
       IN  IF DragEndSaves(albumData.items, activeItem, droppable)
           THEN /\ albumData' = [albumData EXCEPT !.items = items]
                /\ SaveAlbumJson(items)
           ELSE UNCHANGED <<lifecycle, ingest, albumData>>
    /\ activeItem' = 0
    /\ UNCHANGED <<selectedImage, deleteConfirm, clicks>>

\* The page is loaded anew: every signal of the editor starts over.
ReloadPage ==
    /\ Quiescent
    /\ albumData.loaded
    /\ albumData' = NoAlbumData
    /\ selectedImage' = 0
    /\ deleteConfirm' = FALSE
    /\ activeItem' = 0
    /\ clicks' = 0
    /\ UNCHANGED <<lifecycle, ingest>>

\* ------------------------------------------------------- specifications
\* No invocation is running and none has been observed yet.
Idle ==
    /\ pc = [p \in Procs |-> "idle"]
    /\ op = [p \in Procs |-> "none"]
    /\ albumItems = [p \in Procs |-> <<>>]
    /\ archiveItems = [p \in Procs |-> <<>>]
    /\ firstItem = [p \in Procs |-> NoItem]
    /\ pre = [p \in Procs |-> NoPre]
    /\ log = [p \in Procs |-> <<>>]
    /\ last = NoLast
    /\ prev = NoPrev
    /\ drain = NoDrain
    /\ diverged = FALSE
    /\ opened = [p \in Procs |-> FALSE]
    /\ upc = [p \in Procs |-> "idle"]
    /\ req = [p \in Procs |-> NoReq]
    /\ answers = <<>>
    /\ uploadDir = NoFiles
    /\ contentDir = NoFiles
    /\ clock = 0
    /\ albumData = NoAlbumData
    /\ selectedImage = 0
    /\ deleteConfirm = FALSE
    /\ activeItem = 0
    /\ clicks = 0

\* The state of a fresh installation: some Queue with pairwise distinct ids
\* (or no album.json yet), no archive and no pointer object.
Init ==
    /\ album \in {Marshal(s) : s \in {t \in SeqsUpTo(AlbumItem, MaxLen) : DistinctIds(t)}}
                 \cup {Absent}
    /\ archive \in {Absent, Marshal(<<>>)}
    /\ today = PtrAbsent
    /\ Idle
    /\ faults = TRUE
    /\ round = NoRound
    /\ cdnEnv = ""

Publish(p) ==
    \/ PublishStart(p)
    \/ PublishReadAlbum(p)
    \/ PublishUpload(p)
    \/ PublishPurge(p)
    \/ PublishReadArchive(p)
    \/ PublishWriteArchive(p)
    \/ PublishWriteAlbum(p)

Unpublish(p) ==
    \/ UnpublishStart(p)
    \/ UnpublishReadArchive(p)
    \/ UnpublishReadAlbum(p)
    \/ UnpublishUpload(p)
    \/ UnpublishSkipUpload(p)
    \/ UnpublishPurge(p)
    \/ UnpublishWriteArchive(p)
    \/ UnpublishWriteAlbum(p)

\* PUBLISH and UNPUBLISH invocations, one at a time.
NextPU ==
    \/ Publish(SeqProc)
    \/ Unpublish(SeqProc)

SpecPU == Init /\ [][NextPU]_vars

\* A step of the invocation that is running in slot p: the process is
\* scheduled and the call it is blocked in returns (with or without an error).
Running(p) == pc[p] # "idle" /\ (Publish(p) \/ Unpublish(p))

\* SpecPU where a running invocation always gets its next step; nothing
\* obliges anyone to start an invocation.
SpecLive == Init /\ [][NextPU]_vars /\ WF_vars(Running(SeqProc))

\* A manual save made while no transition is running.
SaveBetween == Quiescent /\ ManualSave

\* PUBLISH, UNPUBLISH and manual Queue saves, one at a time.
Next ==
    \/ Publish(SeqProc)
    \/ Unpublish(SeqProc)
    \/ SaveBetween

Spec == Init /\ [][Next]_vars

Save(p) ==
    \/ SaveStart(p)
    \/ SaveCreate(p)
    \/ SaveCopy(p)

\* The i-th of the items an installation holds; ids are never compared by
\* the program, so one numbering stands for all.
Item(i) == [id |-> i, url |-> "a"]

\* One item more than a Queue of the other specifications holds, so that an
\* UNPUBLISH that leaves the Archive non-empty can run next to a PUBLISH.
MaxItems == MaxLen + 1

\* A consistent installation holding items 1..n, the first k of them queued
\* and the others archived in the order they were published; no call fails.
InitConc ==
    /\ \E n \in 0..MaxItems : \E k \in 0..n :
        /\ album = Marshal([i \in 1..k |-> Item(i)])
        /\ archive = Marshal([i \in 1..(n - k) |-> Item(k + i)])
        /\ today = IF k < n THEN MarshalItem(Item(n)) ELSE PtrAbsent
        /\ round = [NoRound EXCEPT !.track = TRUE,
                                   !.base = [q |-> [i \in 1..k |-> Item(i)],
                                             a |-> [i \in 1..(n - k) |-> Item(k + i)]]]
    /\ Idle
    /\ faults = FALSE
    /\ cdnEnv = ""

\* One invocation per slot (PUBLISH, UNPUBLISH or a manual save), their steps
\* interleaved in any way.
NextConc ==
    \E p \in Procs :
        \/ Publish(p)
        \/ Unpublish(p)
        \/ Save(p)
        \/ WriteFileOpened(p)

SpecConc == InitConc /\ [][NextConc]_vars

\* Upload requests, one at a time, on an installation without items; the CDN
\* URL is configured or not.
InitIngest ==
    /\ album = Absent
    /\ archive = Absent
    /\ today = PtrAbsent
    /\ Idle
    /\ faults = TRUE
    /\ round = NoRound
    /\ cdnEnv \in {"", "https://cdn.test"}

NextIngest == Upload(SeqProc)

SpecIngest == InitIngest /\ [][NextIngest]_vars

\* Upload requests served at the same time (net/http runs each handler on a
\* goroutine of its own); no local or remote call fails.
InitIngestConc ==
    /\ album = Absent
    /\ archive = Absent
    /\ today = PtrAbsent
    /\ Idle
    /\ faults = FALSE
    /\ round = NoRound
    /\ cdnEnv = ""

NextIngestConc == \E p \in Procs : Upload(p)

SpecIngestConc == InitIngestConc /\ [][NextIngestConc]_vars

\* An installation found in any consistent state: ids pairwise distinct over
\* both documents, the pointer naming the back of the Archive, and a document
\* that would be empty possibly not created yet.
InitAny ==
    /\ \E q, a \in {t \in SeqsUpTo(AlbumItem, MaxLen) : DistinctIds(t)} :
        /\ DistinctIds(q \o a)
        /\ album \in {Marshal(q)} \cup (IF q = <<>> THEN {Absent} ELSE {})
        /\ archive \in {Marshal(a)} \cup (IF a = <<>> THEN {Absent} ELSE {})
        /\ today = IF a = <<>> THEN PtrAbsent ELSE MarshalItem(a[Len(a)])
    /\ Idle
    /\ faults = TRUE
    /\ round = NoRound
    /\ cdnEnv = ""

\* A fresh installation in which no call fails.
InitEdit ==
    /\ album \in {Marshal(s) : s \in {t \in SeqsUpTo(AlbumItem, MaxLen) : DistinctIds(t)}}
                \cup {Absent}
    /\ archive \in {Absent, Marshal(<<>>)}
    /\ today = PtrAbsent
    /\ Idle
    /\ faults = FALSE
    /\ round = NoRound
    /\ cdnEnv = ""

\* The editor next to PUBLISH and UNPUBLISH, one request at a time.
NextEdit ==
    \/ Publish(SeqProc)
    \/ Unpublish(SeqProc)
    \/ LoadAlbumData
    \/ EditAndSave

SpecEdit == InitEdit /\ [][NextEdit]_vars

\* The controls of the editor page, one event at a time.
Controls ==
    \/ LoadAlbumData
    \/ \E i \in 1..MaxItems : SelectImage(i)
    \/ CancelButton
    \/ EscapeKey
    \/ SaveMetadata
    \/ DeleteButton
    \/ AddNewImage
    \/ \E i \in 1..MaxItems : DragStart(i)
    \/ \E j \in 0..MaxItems : DragEnd(j)
    \/ ReloadPage

SpecPanel == InitEdit /\ [][Controls]_vars

\* The editor page next to PUBLISH and UNPUBLISH, one request at a time.
NextPage ==
    \/ Publish(SeqProc)
    \/ Unpublish(SeqProc)
    \/ LoadAlbumData
    \/ \E i \in 1..MaxItems : SelectImage(i)
    \/ SaveMetadata
    \/ \E i \in 1..MaxItems : DragStart(i)
    \/ \E j \in 0..MaxItems : DragEnd(j)
    \/ ReloadPage

SpecPage == InitEdit /\ [][NextPage]_vars

\* PUBLISH and UNPUBLISH invocations, one at a time, from any such state.
SpecAny == InitAny /\ [][NextPU]_vars


\* ------------------------------------------------------- properties
Queue == Loaded(album)

Archive == Loaded(archive)

Back(s) == s[Len(s)]

Has(lg, e) == \E i \in 1..Len(lg) : lg[i] = e

AllOk == <<"upload_ok", "purge_ok", "archive_ok", "album_ok">>

C2_PublishPost ==
    (last.op = "publish" /\ last.result = "ok" /\ last.log = AllOk)
        => /\ last.pre.album.kind = "json" /\ Len(last.pre.album.items) > 0
           /\ album = Marshal(Tail(last.pre.album.items))
           /\ archive = Marshal(Append(Loaded(last.pre.archive),
                                       Head(last.pre.album.items)))
           /\ today = MarshalItem(Head(last.pre.album.items))
           /\ today = MarshalItem(Back(archive.items))

\* the scenario of the spec: two items queued, one already archived
C2_Witness ==
    /\ last.op = "publish" /\ last.result = "ok" /\ last.log = AllOk
    /\ Len(last.pre.album.items) = 2
    /\ last.pre.album.items[1] # last.pre.album.items[2]
    /\ Len(Loaded(last.pre.archive)) = 1

\* C3: PUBLISH on an empty Queue fails, leaves Queue, Archive and pointer as
\* they were, and attempts neither a pointer write nor a CDN purge.
C3_PublishEmptyQueue ==
    (last.op = "publish" /\ last.pre.album = Marshal(<<>>))
        => /\ last.result = "err"
           /\ album = last.pre.album
           /\ archive = last.pre.archive
           /\ today = last.pre.today
           /\ \A i \in 1..Len(last.log) :
                last.log[i] \notin {"upload_ok", "upload_cut", "upload_failed",
                                    "purge_ok", "purge_failed"}

\* the Queue was drained by earlier PUBLISHes and PUBLISH is invoked again
C3_Witness ==
    /\ last.op = "publish" /\ last.pre.album = Marshal(<<>>)
    /\ Len(Loaded(last.pre.archive)) > 0
    /\ last.pre.today.kind = "json"

\* C4: UNPUBLISH on an empty Archive fails, leaves Queue, Archive and pointer
\* as they were, and attempts neither a pointer write nor a CDN purge.
C4_UnpublishEmptyArchive ==
    (last.op = "unpublish" /\ last.pre.archive = Marshal(<<>>))
        => /\ last.result = "err"
           /\ album = last.pre.album
           /\ archive = last.pre.archive
           /\ today = last.pre.today
           /\ \A i \in 1..Len(last.log) :
                last.log[i] \notin {"upload_ok", "upload_cut", "upload_failed",
                                    "purge_ok", "purge_failed"}

\* the Archive was emptied by an earlier UNPUBLISH, the Queue is not empty
C4_Witness ==
    /\ last.op = "unpublish" /\ last.pre.archive = Marshal(<<>>)
    /\ Len(Loaded(last.pre.album)) > 0
    /\ last.pre.today.kind = "json"

WriteEvents == {"archive_ok", "archive_failed", "album_ok", "album_failed"}

GateOpen(lg) == Has(lg, "upload_ok")

\* C5: in PUBLISH neither document is written (nor is a write attempted) before
\* the pointer write has succeeded, and a PUBLISH whose pointer write failed
\* returns a failure with Queue and Archive exactly as before.
C5_SynchronizationGate ==
    /\ \A p \in Procs :
        (op[p] = "publish" /\ ~GateOpen(log[p]))
            => /\ album = pre[p].album
               /\ archive = pre[p].archive
               /\ \A i \in 1..Len(log[p]) : log[p][i] \notin WriteEvents
    /\ (last.op = "publish" /\ ~GateOpen(last.log))
            => /\ last.result = "err"
               /\ album = last.pre.album
               /\ archive = last.pre.archive
               /\ \A i \in 1..Len(last.log) : last.log[i] \notin WriteEvents

\* a PUBLISH on a non-empty Queue whose pointer write failed while writing
C5_Witness ==
    /\ last.op = "publish" /\ Has(last.log, "upload_cut")
    /\ Len(Loaded(last.pre.album)) > 0
    /\ Len(Loaded(last.pre.archive)) > 0

\* C6: a failed CDN purge never ends a PUBLISH; if the pointer write succeeded,
\* the purge failed and the commit succeeded, the invocation reports success
\* and the item has moved exactly as after a successful purge.
C6_PurgeAdvisory ==
    (last.op = "publish" /\ Has(last.log, "purge_failed"))
        => /\ Back(last.log) # "purge_failed"
           /\ (last.log = <<"upload_ok", "purge_failed", "archive_ok", "album_ok">>
                 <=> last.result = "ok")
           /\ last.result = "ok"
                => /\ album = Marshal(Tail(last.pre.album.items))
                   /\ archive = Marshal(Append(Loaded(last.pre.archive),
                                               Head(last.pre.album.items)))
                   /\ today = MarshalItem(Head(last.pre.album.items))

\* a PUBLISH that succeeded although its purge failed
C6_Witness ==
    /\ last.op = "publish" /\ last.result = "ok"
    /\ Has(last.log, "purge_failed")
    /\ Len(last.pre.album.items) = 2


\* C7: after k consecutive fully successful PUBLISHes from Queue q0 and Archive
\* a0, the Archive is a0 followed by the first k items of q0 in order, the Queue
\* is the rest of q0, the k-th PUBLISH has published the k-th item of q0, and
\* after Len(q0) of them the Queue is empty.
C7_FifoDrain ==
    (drain.k > 0 /\ last.op = "publish" /\ last.result = "ok")
        => /\ drain.k <= Len(drain.q0)
           /\ archive = Marshal(drain.a0 \o SubSeq(drain.q0, 1, drain.k))
           /\ album = Marshal(SubSeq(drain.q0, drain.k + 1, Len(drain.q0)))
           /\ today = MarshalItem(drain.q0[drain.k])
           /\ (drain.k = Len(drain.q0) => album = Marshal(<<>>))

\* a Queue of two different items has been drained by two PUBLISHes
C7_Witness ==
    /\ drain.k = 2 /\ Len(drain.q0) = 2 /\ drain.q0[1] # drain.q0[2]
    /\ last.op = "publish" /\ last.result = "ok"
    /\ album = Marshal(<<>>)

\* C8: a fully successful PUBLISH immediately followed by a fully successful
\* UNPUBLISH leaves Queue and Archive with their pre-publish contents and order.
C8_UnpublishInvertsPublish ==
    (last.op = "unpublish" /\ last.result = "ok" /\ prev.op = "publish")
        => /\ album.kind = "json" /\ archive.kind = "json"
           /\ Queue = Loaded(prev.album)
           /\ Archive = Loaded(prev.archive)

\* PUBLISH then UNPUBLISH from a Queue of two different items
C8_Witness ==
    /\ last.op = "unpublish" /\ last.result = "ok" /\ prev.op = "publish"
    /\ Len(Loaded(prev.album)) = 2
    /\ prev.album.items[1] # prev.album.items[2]

\* C9: a successful UNPUBLISH removes Archive.back(), puts it at the front of
\* the Queue ahead of the prior Queue items in unchanged order, and if the
\* Archive is still non-empty the pointer equals the new Archive.back().
C9_UnpublishPost ==
    (last.op = "unpublish" /\ last.result = "ok")
        => /\ last.pre.archive.kind = "json" /\ Len(last.pre.archive.items) > 0
           /\ archive = Marshal(SubSeq(last.pre.archive.items, 1,
                                       Len(last.pre.archive.items) - 1))
           /\ album = Marshal(<<Back(last.pre.archive.items)>>
                              \o Loaded(last.pre.album))
           /\ (Len(archive.items) > 0
                 => today = MarshalItem(Back(archive.items)))

\* an UNPUBLISH from an Archive of two different items onto a non-empty Queue
C9_Witness ==
    /\ last.op = "unpublish" /\ last.result = "ok"
    /\ Len(last.pre.archive.items) = 2
    /\ last.pre.archive.items[1] # last.pre.archive.items[2]
    /\ Len(Loaded(last.pre.album)) > 0

\* C10: in every state between invocations no id occurs twice in
\* Queue and Archive together.
C10_UniqueIds ==
    Quiescent => DistinctIds(Queue \o Archive)

Items(s) == {s[i] : i \in 1..Len(s)}

\* C11: after any PUBLISH or UNPUBLISH, completed or aborted (in particular
\* after a failure of the first or of the second document write), every item
\* that was in the Queue or in the Archive before it is still in the Queue or
\* in the Archive.
C11_ItemsNeverDeleted ==
    (last.op \in {"publish", "unpublish"})
        => (Items(Loaded(last.pre.album)) \cup Items(Loaded(last.pre.archive)))
               \subseteq (Items(Queue) \cup Items(Archive))

\* C12: a PUBLISH whose pointer write succeeded and in which a later
\* persistence step failed (reading or writing archive.json, writing album.json)
\* reports a failure, writes nothing after the failed step and does not roll
\* the pointer back: the pointer holds the item it has just written.
C12_UnrecoveredDivergence ==
    (last.op = "publish" /\ last.result = "err" /\ Has(last.log, "upload_ok"))
        => /\ Back(last.log) \in {"read_failed", "archive_failed", "album_failed"}
           /\ \A i \in 1..(Len(last.log) - 1) :
                last.log[i] \in {"upload_ok", "purge_ok", "purge_failed", "archive_ok"}
           /\ today = MarshalItem(Head(last.pre.album.items))
           /\ (Back(last.log) = "read_failed"
                 => album = last.pre.album /\ archive = last.pre.archive)
           /\ (Back(last.log) = "archive_failed"
                 => album = last.pre.album /\ archive \in {last.pre.archive, Malformed})
           /\ (Back(last.log) = "album_failed"
                 => /\ album \in {last.pre.album, Malformed}
                    /\ archive = Marshal(Append(Loaded(last.pre.archive),
                                                Head(last.pre.album.items))))

\* the second PUBLISH of a two-item Queue fails to write archive.json: the
\* pointer has moved on to the second item and stays there
C12_Witness ==
    /\ last.op = "publish" /\ last.result = "err"
    /\ last.log = <<"upload_ok", "purge_ok", "archive_failed">>
    /\ last.pre.today.kind = "json" /\ today.kind = "json"
    /\ today # last.pre.today
    /\ Len(Loaded(last.pre.archive)) = 1

PointerEvents ==
    {"upload_ok", "upload_cut", "upload_failed", "purge_ok", "purge_failed"}

\* C14: an UNPUBLISH that removes the only Archive item leaves the pointer
\* exactly as it was (no pointer write, no deletion, no CDN purge is made),
\* while the item returns to the front of the Queue and both documents are
\* written.
C14_UnpublishToEmpty ==
    /\ \A p \in Procs :
        (op[p] = "unpublish" /\ Len(Loaded(pre[p].archive)) = 1)
            => /\ today = pre[p].today
               /\ \A i \in 1..Len(log[p]) : log[p][i] \notin PointerEvents
    /\ (last.op = "unpublish" /\ Len(Loaded(last.pre.archive)) = 1)
            => /\ today = last.pre.today
               /\ \A i \in 1..Len(last.log) : last.log[i] \notin PointerEvents
               /\ last.result = "ok"
                    => /\ last.log = <<"archive_ok", "album_ok">>
                       /\ archive = Marshal(<<>>)
                       /\ album = Marshal(<<last.pre.archive.items[1]>>
                                          \o Loaded(last.pre.album))

\* the only archived item, which the pointer names, is unpublished onto a
\* non-empty Queue
C14_Witness ==
    /\ last.op = "unpublish" /\ last.result = "ok"
    /\ Len(Loaded(last.pre.archive)) = 1
    /\ last.pre.today = MarshalItem(last.pre.archive.items[1])
    /\ today = last.pre.today
    /\ Len(Loaded(last.pre.album)) > 0

\* A successful PUBLISH leaves the previous Archive as a strict prefix of the
\* new one, which is one longer; a successful UNPUBLISH leaves the previous
\* Archive without its last item.
ArchiveChangedAtBack ==
    /\ (last.op = "publish" /\ last.result = "ok")
        => /\ archive.kind = "json"
           /\ Len(Archive) = Len(Loaded(last.pre.archive)) + 1
           /\ SubSeq(Archive, 1, Len(Archive) - 1) = Loaded(last.pre.archive)
    /\ (last.op = "unpublish" /\ last.result = "ok")
        => /\ archive.kind = "json"
           /\ Len(Loaded(last.pre.archive)) = Len(Archive) + 1
           /\ Archive = SubSeq(Loaded(last.pre.archive), 1, Len(Archive))

\* A step changes archive.json only if it is the archive write of a PUBLISH
\* or an UNPUBLISH, and the pointer only if it is the pointer write of one; a
\* step taken while no transition runs (a manual Queue save) changes neither.
ArchiveChangedByTransitionsOnly ==
    /\ archive' # archive
        => \E p \in Procs : pc[p] \in {"p_write_archive", "u_write_archive"}
    /\ today' # today
        => \E p \in Procs : pc[p] \in {"p_upload", "u_upload"}
    /\ (Quiescent /\ Quiescent') => (archive' = archive /\ today' = today)

\* C15: the Archive is mutated only by PUBLISH and UNPUBLISH and only at its
\* back: a successful PUBLISH leaves the previous Archive a strict prefix of
\* the new one (one longer), a successful UNPUBLISH leaves the previous
\* Archive minus its last item, and a manual Queue save leaves Archive and
\* pointer unchanged.
C15_ArchiveOnlyAtBack ==
    []ArchiveChangedAtBack /\ [][ArchiveChangedByTransitionsOnly]_vars

\* a manual save has replaced the Queue while an item is archived and named
\* by the pointer
C15_Witness ==
    /\ last.op = "save" /\ last.result = "ok"
    /\ Len(Archive) = 1 /\ today = MarshalItem(Archive[1])
    /\ Len(Queue) = 2

FatalEvents ==
    {"empty", "read_failed", "upload_failed", "upload_cut",
     "archive_failed", "album_failed"}

\* C17: the HTTP publish trigger answers success only if the pointer write
\* and both document writes succeeded, and answers a server error carrying
\* the failure for every fatal failure (empty Queue, unreadable or malformed
\* document, pointer write failure, document write failure).
C17_PublishResponse ==
    (last.op = "publish")
        => LET r == PublishResponse(last.result, last.log)
           IN  /\ r.status \in {StatusOK, StatusInternalServerError}
               /\ r.status = StatusOK
                    => /\ Has(last.log, "upload_ok")
                       /\ Has(last.log, "archive_ok")
                       /\ Has(last.log, "album_ok")
                       /\ today = MarshalItem(Head(last.pre.album.items))
                       /\ archive = Marshal(Append(Loaded(last.pre.archive),
                                                   Head(last.pre.album.items)))
                       /\ album = Marshal(Tail(last.pre.album.items))
               /\ (\E i \in 1..Len(last.log) : last.log[i] \in FatalEvents)
                    => /\ r.status = StatusInternalServerError
                       /\ r.body \in FatalEvents
                       /\ r.body = Back(last.log)
               /\ (last.pre.album.kind # "json" \/ Len(last.pre.album.items) = 0
                      \/ last.pre.archive.kind = "malformed")
                    => r.status = StatusInternalServerError

\* the trigger answers 500 for a failed write of album.json, after the pointer
\* and archive.json have been written
C17_Witness ==
    /\ last.op = "publish"
    /\ PublishResponse(last.result, last.log).status = StatusInternalServerError
    /\ PublishResponse(last.result, last.log).body = "album_failed"
    /\ Has(last.log, "upload_ok") /\ Has(last.log, "archive_ok")

Count(lg, S) == Cardinality({i \in 1..Len(lg) : lg[i] \in S})

\* The calls of one invocation: at most one pointer write, at most one purge,
\* and nothing after a fatal failure.
NoRetry(lg) ==
    /\ Count(lg, {"upload_ok", "upload_cut", "upload_failed"}) <= 1
    /\ Count(lg, {"purge_ok", "purge_failed"}) <= 1
    /\ \A i \in 1..(Len(lg) - 1) : lg[i] \notin FatalEvents

\* C18: no transition retries: one invocation attempts the pointer write at
\* most once and the purge at most once, and after its first fatal failure it
\* performs no further step and returns the failure.
C18_NoRetry ==
    /\ \A p \in Procs :
        /\ NoRetry(log[p])
        /\ \A i \in 1..Len(log[p]) : log[p][i] \notin FatalEvents
    /\ NoRetry(last.log)
    /\ (\E i \in 1..Len(last.log) : last.log[i] \in FatalEvents)
        => (last.result = "err" /\ Back(last.log) \in FatalEvents)

\* an UNPUBLISH whose pointer write failed has returned at once, with both
\* documents as they were
C18_Witness ==
    /\ last.op = "unpublish" /\ last.result = "err"
    /\ last.log = <<"upload_failed">>
    /\ album = last.pre.album /\ archive = last.pre.archive

NoDocument == {Absent, Marshal(<<>>)}

\* A finished transition that found a document missing ended as it ends on an
\* empty document: with the item moved, or with the failure "the collection
\* is empty" and nothing changed.
MissingAsEmptyResult ==
    /\ (last.op = "publish" /\ last.result = "ok" /\ last.pre.archive \in NoDocument)
        => /\ archive = Marshal(<<Head(last.pre.album.items)>>)
           /\ album = Marshal(Tail(last.pre.album.items))
    /\ (last.op = "unpublish" /\ last.result = "ok" /\ last.pre.album \in NoDocument)
        => /\ album = Marshal(<<Back(last.pre.archive.items)>>)
           /\ archive = Marshal(SubSeq(last.pre.archive.items, 1,
                                       Len(last.pre.archive.items) - 1))
    /\ (\/ last.op = "publish" /\ last.pre.album \in NoDocument
        \/ last.op = "unpublish" /\ last.pre.archive \in NoDocument)
        => /\ last.result = "err"
           /\ Len(last.log) = 1
           /\ Snapshot = last.pre
    /\ (\/ last.op = "publish" /\ last.pre.album = Absent
        \/ last.op = "unpublish" /\ last.pre.archive = Absent)
        => last.log = <<"empty">>

\* The load of a missing document that may be missing does not fail and
\* leaves only the item being moved in the slice; the load of a missing
\* document that must hold an item ends the invocation.
MissingAsEmptyStep ==
    \A p \in Procs :
        /\ (pc[p] = "p_read_archive" /\ archive = Absent)
            => (pc'[p] = "p_write_archive" /\ archiveItems'[p] = <<firstItem[p]>>)
        /\ (pc[p] = "u_read_album" /\ album = Absent)
            => (pc'[p] = "u_upload" /\ albumItems'[p] = <<firstItem[p]>>)
        /\ (pc[p] = "p_read_album" /\ album \in NoDocument)
            => (pc'[p] = "idle" /\ last'.result = "err" /\ Snapshot' = Snapshot)
        /\ (pc[p] = "u_read_archive" /\ archive \in NoDocument)
            => (pc'[p] = "idle" /\ last'.result = "err" /\ Snapshot' = Snapshot)

\* C19: a document that does not exist yet is loaded as the empty sequence:
\* PUBLISH with no archive.json behaves as with Archive = [], UNPUBLISH with no
\* album.json as with Queue = [], PUBLISH with no album.json as PUBLISH on an
\* empty Queue, and UNPUBLISH with no archive.json as UNPUBLISH on an empty
\* Archive.
C19_MissingDocumentIsEmpty ==
    []MissingAsEmptyResult /\ [][MissingAsEmptyStep]_vars

\* The transitions and the save as single, serial operations on Queue q and
\* Archive a (a transition that finds its collection empty changes nothing).
Serial(st, o) ==
    CASE o.op = "publish" ->
            IF st.q = <<>> THEN st
            ELSE [q |-> Tail(st.q), a |-> Append(st.a, Head(st.q))]
      [] o.op = "unpublish" ->
            IF st.a = <<>> THEN st
            ELSE [q |-> <<st.a[Len(st.a)]>> \o st.q,
                  a |-> SubSeq(st.a, 1, Len(st.a) - 1)]
      [] o.op = "save" -> [q |-> o.body, a |-> st.a]

RECURSIVE SerialRun(_, _)
SerialRun(st, ops) ==
    IF ops = <<>> THEN st ELSE SerialRun(Serial(st, Head(ops)), Tail(ops))

\* The results of all serial orders of the invocations ops.
SerialResults(st, ops) ==
    LET n == Len(ops)
        orders == {f \in [1..n -> 1..n] : \A i, j \in 1..n : i # j => f[i] # f[j]}
    IN  {SerialRun(st, [i \in 1..n |-> ops[f[i]]]) : f \in orders}

Current == [q |-> Queue, a |-> Archive]

\* C13: nothing serializes the invocations: when none of them began while
\* another was running the documents hold the result of the serial run, and
\* there are interleavings of two invocations, both reporting success, after
\* which Queue and Archive differ from the result of every serial order.
C13_SerialUnlessOverlapped ==
    (round.track /\ Quiescent /\ ~round.overlap)
        => Current = SerialRun(round.base, round.hist)

\* both invocations have returned success and the documents are the result
\* of neither serial order: one whole-document write has overwritten the other
\* invocation's change
C13_Witness ==
    /\ round.track /\ Quiescent
    /\ Len(round.hist) = 2 /\ round.oks = 2
    /\ Current \notin SerialResults(round.base, round.hist)

\* C16: a load that runs concurrently with a save of the same document
\* observes the complete old or the complete new document, never an empty or
\* partially written one.
C16_AtomicSave ==
    \A p \in Procs :
        /\ pc[p] \in {"p_read_album", "u_read_album"} => album.kind # "malformed"
        /\ pc[p] \in {"p_read_archive", "u_read_archive"} => archive.kind # "malformed"

\* C20: content addressing is deterministic: two successful ingestions of
\* the same bytes with the same extension, whatever the state of the local
\* and remote directories and whatever happened in between, are answered with
\* the same content address (hex digest + extension) and the same URL.
C20_DeterministicAddress ==
    \A i, j \in 1..Len(answers) :
        (/\ answers[i].status = StatusOK /\ answers[j].status = StatusOK
         /\ answers[i].data = answers[j].data /\ answers[i].ext = answers[j].ext)
            => /\ answers[i].url = answers[j].url
               /\ answers[i].name = answers[j].name
               /\ answers[i].url = ImageUrl(answers[i].name)
               /\ answers[i].name \in DOMAIN contentDir

\* the same bytes were ingested twice with success, once uploaded from the
\* renamed file and once, the rename having failed, from the temporary file
C20_Witness ==
    /\ Len(answers) = 2
    /\ answers[1].status = StatusOK /\ answers[2].status = StatusOK
    /\ answers[1].data = answers[2].data /\ answers[1].ext = answers[2].ext
    /\ Len(answers[1].data) = MaxBytes
    /\ answers[1].path = answers[1].name
    /\ answers[2].path # answers[2].name

\* C21: whenever an ingestion request has returned, on whichever path (copy
\* failure, rename failure, remote upload failure, success), neither its
\* temporary file nor its hash-named file is left in the upload directory.
C21_NoLocalLeak ==
    /\ (\A p \in Procs : upc[p] = "idle") => DOMAIN uploadDir = {}
    /\ \A p \in Procs : upc[p] # "idle" => DOMAIN uploadDir \subseteq req[p].defers

\* a request whose remote upload failed after the rename, then one that
\* succeeded from the temporary file after a failed rename: nothing is left
C21_Witness ==
    /\ Len(answers) = 2
    /\ answers[1].status = StatusInternalServerError
    /\ answers[1].path = answers[1].name /\ answers[1].name # <<>>
    /\ answers[2].status = StatusOK
    /\ answers[2].path # answers[2].name
    /\ DOMAIN uploadDir = {}

\* The answer given in this step, if one is given, is an error without URL
\* or a success whose blob is in place.
AnsweredWithPlacement ==
    Len(answers') > Len(answers) =>
        LET a == answers'[Len(answers')]
        IN  IF a.status = StatusOK
            THEN /\ a.url = ImageUrl(a.name)
                 /\ a.name \in DOMAIN contentDir'
                 /\ contentDir'[a.name] = a.data
            ELSE /\ a.status = StatusInternalServerError
                 /\ a.url = NoUrl

\* C22: an error response of the ingestion carries no URL, and a success
\* response carries the address of the digest name, under which the remote
\* content directory holds the complete bytes of the request at that moment.
C22_UrlOnlyAfterPlacement == [][AnsweredWithPlacement]_vars

\* a failed request without URL, then a successful one of two bytes whose
\* blob is in place
C22_Witness ==
    /\ Len(answers) = 2
    /\ answers[1].status = StatusInternalServerError /\ answers[1].url = NoUrl
    /\ answers[1].name # <<>>
    /\ answers[2].status = StatusOK /\ Len(answers[2].data) = MaxBytes
    /\ answers[2].url = ImageUrl(answers[2].name)
    /\ contentDir[answers[2].name] = answers[2].data

\* C23: the bytes stored under an address that an ingestion has answered with
\* stay as they are, whatever is ingested afterwards.
C23_BlobsImmutable ==
    \A i \in 1..Len(answers) :
        answers[i].status = StatusOK =>
            /\ answers[i].name \in DOMAIN contentDir
            /\ contentDir[answers[i].name] = answers[i].data

PurgeEvents == {"purge_ok", "purge_failed"}

\* The calls lg of a PUBLISH are in the order of the function body: a purge
\* directly after the successful pointer write, collection writes after a
\* purge, the Queue write after the successful Archive write.
PublishOrdered(lg) ==
    \A i \in 1..Len(lg) :
        /\ lg[i] \in PurgeEvents => (i > 1 /\ lg[i - 1] = "upload_ok")
        /\ lg[i] \in WriteEvents =>
            \E j \in 1..(i - 1) : lg[j] \in PurgeEvents
        /\ lg[i] \in {"album_ok", "album_failed"} =>
            (i > 1 /\ lg[i - 1] = "archive_ok")

\* C24: in every PUBLISH, running or returned, the CDN purge is attempted only
\* after the pointer write of that invocation succeeded, both collection
\* writes come after the purge attempt, and archive.json is written before
\* album.json.
C24_PublishStepOrder ==
    /\ \A p \in Procs : op[p] = "publish" => PublishOrdered(log[p])
    /\ last.op = "publish" => PublishOrdered(last.log)

\* a PUBLISH that went through all four calls, the last one failing
C24_Witness ==
    /\ last.op = "publish"
    /\ last.log = <<"upload_ok", "purge_failed", "archive_ok", "album_failed">>
    /\ Len(Loaded(last.pre.archive)) > 0

UploadFailures == {"upload_failed", "upload_cut"}

\* C25: an UNPUBLISH that leaves the Archive non-empty and whose pointer write
\* for the new back item failed returns a failure, has attempted no write of
\* either document, and leaves archive.json and album.json as they were.
C25_UnpublishAbortsBeforeCommit ==
    (last.op = "unpublish" /\ \E e \in UploadFailures : Has(last.log, e))
        => /\ last.result = "err"
           /\ Len(Loaded(last.pre.archive)) > 1
           /\ Len(last.log) = 1
           /\ album = last.pre.album
           /\ archive = last.pre.archive
           /\ Queue = Loaded(last.pre.album)
           /\ Archive = Loaded(last.pre.archive)

\* an UNPUBLISH from a two-item Archive and a one-item Queue whose pointer
\* write broke off after the remote file was created
C25_Witness ==
    /\ last.op = "unpublish" /\ last.log = <<"upload_cut">>
    /\ Len(Loaded(last.pre.archive)) = 2
    /\ Len(Loaded(last.pre.album)) = 1
    /\ today = PtrPartial

\* Only PUBLISH and UNPUBLISH invocations ran, at least two, steps interleaved,
\* every one to a successful end.
TransitionsRaced ==
    /\ round.track /\ Quiescent /\ round.overlap
    /\ Len(round.hist) >= 2
    /\ round.oks = Len(round.hist)
    /\ \A i \in 1..Len(round.hist) : round.hist[i].op \in {"publish", "unpublish"}

\* C26: once two or more concurrently running PUBLISH/UNPUBLISH invocations
\* whose every step succeeded have all returned, a non-empty Archive implies
\* that the pointer is its serialized back item.
C26_PointerConsistentAfterRace ==
    (TransitionsRaced /\ archive.kind = "json" /\ Len(archive.items) > 0)
        => today = MarshalItem(Back(archive.items))

C28_PointerWriteAllOrNothing ==
    (last.op \in {"publish", "unpublish"}
        /\ last.pre.today.kind = "json"
        /\ \E e \in UploadFailures : Back(last.log) = e)
        => today = last.pre.today

\* C29: after a successful editor save, no item that a PUBLISH has moved to
\* the Archive (and no UNPUBLISH has moved back) is in the persisted Queue.
C29_SaveKeepsTransition ==
    (last.op = "save" /\ last.result = "ok" /\ albumData.loaded)
        => Items(Queue) \cap Items(Archive) = {}

\* The Queue and the Archive after k PUBLISHes and then u of the UNPUBLISHes
\* that take them back.
DrainUndone ==
    (Quiescent /\ last.op = "unpublish" /\ last.result = "ok" /\ drain.u > 0)
        => /\ drain.u <= drain.k /\ drain.k <= Len(drain.q0)
           /\ Archive = drain.a0 \o SubSeq(drain.q0, 1, drain.k - drain.u)
           /\ Queue = SubSeq(drain.q0, drain.k - drain.u + 1, Len(drain.q0))
           /\ (drain.u = drain.k => Queue = drain.q0 /\ Archive = drain.a0)

\* C30: from a state whose pointer is the serialized Archive.back(), a fully
\* successful UNPUBLISH immediately followed by a fully successful PUBLISH
\* leaves Queue, Archive and the pointer as they were before the UNPUBLISH; and
\* k successful PUBLISHes followed by k successful UNPUBLISHes leave Queue and
\* Archive as they were, for every k up to the length of the Queue.
C30_PublishInvertsUnpublish ==
    /\ (last.op = "publish" /\ last.result = "ok" /\ prev.op = "unpublish"
            /\ prev.today = MarshalItem(Back(Loaded(prev.archive))))
        => /\ album.kind = "json" /\ archive.kind = "json"
           /\ Queue = Loaded(prev.album)
           /\ Archive = Loaded(prev.archive)
           /\ today = prev.today
    /\ DrainUndone

\* UNPUBLISH then PUBLISH from an Archive of two different items
C30_Witness ==
    /\ last.op = "publish" /\ last.result = "ok" /\ prev.op = "unpublish"
    /\ Len(Loaded(prev.archive)) = 2
    /\ prev.archive.items[1] # prev.archive.items[2]
    /\ prev.today = MarshalItem(prev.archive.items[2])
    /\ today = prev.today

\* two PUBLISHes from a Queue of two different items, then two UNPUBLISHes
C30_DrainedAndRefilled ==
    /\ Quiescent /\ last.op = "unpublish" /\ last.result = "ok"
    /\ drain.k = 2 /\ drain.u = 2
    /\ drain.q0[1] # drain.q0[2]
    /\ Queue = drain.q0

\* Request p has renamed its file to the digest name and not yet uploaded it.
AwaitsUpload(p) ==
    upc[p] = "u_sftp" /\ req[p].name # <<>> /\ req[p].path = req[p].name

\* C31: with no failing call, two upload requests of the same bytes and
\* extension are both answered with success and the same URL, and the
\* hash-named file of a request that has yet to upload it is in the upload
\* directory.
C31_ConcurrentSameContent ==
    /\ \A i, j \in 1..Len(answers) :
        (i # j /\ answers[i].data = answers[j].data
               /\ answers[i].ext = answers[j].ext)
            => /\ answers[i].status = StatusOK
               /\ answers[j].status = StatusOK
               /\ answers[i].url = answers[j].url
    /\ \A p \in Procs : AwaitsUpload(p) => req[p].path \in DOMAIN uploadDir

\* The invocation that has returned is a PUBLISH or UNPUBLISH with exactly one
\* of the two outcomes: success after all its writes, or a reported failure
\* whose last call is the one that failed.
OneOutcome ==
    (Quiescent /\ last.op \in {"publish", "unpublish"})
        => /\ last.result \in {"ok", "err"}
           /\ last.result = "ok" =>
                /\ Len(last.log) > 0 /\ Back(last.log) = "album_ok"
                /\ \A i \in 1..Len(last.log) :
                    last.log[i] \notin {"read_failed", "empty", "upload_failed",
                                        "upload_cut", "archive_failed", "album_failed"}
           /\ last.result = "err" =>
                /\ Len(last.log) > 0
                /\ Back(last.log) \in {"read_failed", "empty", "upload_failed",
                                       "upload_cut", "archive_failed", "album_failed"}

\* C32: a PUBLISH or UNPUBLISH invocation whose external calls all return
\* comes to an end, and it ends with exactly one of success and reported
\* failure.
C32_Terminates ==
    /\ []OneOutcome
    /\ (pc[SeqProc] # "idle") ~> (Quiescent /\ last.result \in {"ok", "err"})

\* an UNPUBLISH that went through pointer write and purge and then failed to
\* write archive.json has returned
C32_Witness ==
    /\ Quiescent /\ last.op = "unpublish" /\ last.result = "err"
    /\ Len(last.log) = 3 /\ Back(last.log) = "archive_failed"

\* The sequence without its element at position k.
RemoveAt(s, k) == SubSeq(s, 1, k - 1) \o SubSeq(s, k + 1, Len(s))

\* C33: dropping the thumbnail at position i onto the one at position j # i
\* yields a Queue with the same items, the dragged item at position j and the
\* other items in their former order; dropping it onto itself or onto no
\* thumbnail leaves the Queue as it is and saves nothing.
C33_DragIsPermutation ==
    albumData.loaded =>
        LET items == albumData.items
        IN  \A i \in 1..Len(items) : \A j \in 0..Len(items) :
                LET draggable == items[i].id
                    droppable == IF j = 0 THEN 0 ELSE items[j].id
                    dropped == DragEndItems(items, draggable, droppable)
                IN  IF j # 0 /\ j # i
                    THEN /\ Len(dropped) = Len(items)
                         /\ dropped[j] = items[i]
                         /\ RemoveAt(dropped, j) = RemoveAt(items, i)
                    ELSE /\ dropped = items
                         /\ ~DragEndSaves(items, draggable, droppable)

\* The ids of the items of a Queue.
IdsOf(items) == {items[i].id : i \in 1..Len(items)}

\* A step of the open editor page that takes an id out of the editor's copy
\* of the Queue or out of album.json.
ItemRemoved ==
    /\ albumData.loaded /\ albumData'.loaded
    /\ \/ IdsOf(albumData.items) \ IdsOf(albumData'.items) # {}
       \/ IdsOf(Loaded(album)) \ IdsOf(Loaded(album')) # {}

\* Such a step is a delete click on the selected image that follows an
\* earlier delete click on it, and takes out the selected image only.
RemovedBySecondClick ==
    ItemRemoved =>
        /\ selectedImage # 0 /\ clicks >= 1
        /\ albumData'.items = DeleteItem(albumData.items, selectedImage)
        /\ IdsOf(Loaded(album)) \ IdsOf(Loaded(album')) \subseteq {selectedImage}

\* A step that arms the confirmation changes nothing else of the editor.
FirstClickOnlyArms ==
    (~deleteConfirm /\ deleteConfirm') =>
        /\ selectedImage' = selectedImage /\ selectedImage # 0
        /\ albumData' = albumData /\ album' = album

\* C34: an item leaves the Queue only by a second delete click on the image
\* that is still selected: the confirmation is armed for the selected image
\* only after a delete click on it, with no other selection, cancel or Escape
\* since; the arming click removes nothing.
C34_TwoStepDelete ==
    /\ [](deleteConfirm /\ selectedImage # 0 => clicks >= 1)
    /\ [][RemovedBySecondClick /\ FirstClickOnlyArms]_vars

\* An image has been deleted by the second click, and another one is left.
C34_Witness ==
    /\ albumData.loaded /\ deleteConfirm /\ selectedImage = 0
    /\ last.op = "save" /\ last.result = "ok"
    /\ albumData.items # <<>>
    /\ Loaded(album) = albumData.items

====
